---------------------------- MODULE Spec2Model ----------------------------
(***************************************************************************)
(* Model of the retrieval-augmented answer pipeline of Cogno-MVP:          *)
(* advancedRAGQuery and the components it calls (generateExpandedQueries,  *)
(* rerankDocuments, synthesizeAnswer, critiqueResponse).                   *)
(*                                                                         *)
(* Scores are modelled in tenths (0.7 is 7, 1.0 is 10).  A text is a       *)
(* sequence of one-character strings.  Every await on the text generation  *)
(* service is split into the step that issues the call and the step that   *)
(* resumes with the service's response or failure.                         *)
(***************************************************************************)
EXTENDS Integers, Sequences, FiniteSets, TLC

\* ------------------------------------------------------------------ bounds
MaxResults == 1          \* longest vectorSearchResults list explored
MaxAttempts == 2         \* largest selfCritique.maxImprovementAttempts explored
MaxNumQueries == 2       \* largest numQueries given to generateExpandedQueries
MaxCompletionLen == 5    \* longest expansion completion explored, in characters
MaxPassages == 3         \* longest passage list given to synthesizeAnswer
MaxRankDocs == 12        \* longest document list given to rerankDocuments
MaxTextLen == 4          \* longest free-form text given to chunkText, in characters
MaxWords == 4            \* most words in a text built from whole words
MaxChunkSize == 6        \* largest of the small chunkSize values explored
MaxFiles == 1            \* most files in one upload
MaxPdfWords == 3         \* most words in the text of an uploaded file
MaxClock == 1            \* last millisecond at which an upload is served
MaxStored == 1           \* uploads are served while the index holds at most this many records
MaxHits == 2             \* most hits the index returns for one search
MaxRanked == 4           \* longest list of distinct passages given to advancedRAGQuery
NumCallers == 3          \* concurrent callers of ensurePineconeIndex / getPineconeIndex

\* --------------------------------------------------------------- inputs
ChunkTexts == {"", "A"}             \* chunk_text of a search hit ("" = missing/empty)
Thresholds == {5, 7}                \* selfCritique.threshold (default 0.7, env override)
AnswerTexts == {"a1", "a2"}         \* texts the synthesis call may return
JsonScores == {0, 6, 7, 9}          \* "score" field of a parsed critique (0 = absent/falsy)
ExpansionResponses ==
  { <<>>, <<"x", "\n", " ", "\n", " ", "y", " ">> }

query == <<"q">>
InsufficientAnswer == "insufficient-information"

VARIABLES
  pc,                  \* position of the advancedRAGQuery invocation
  config,              \* the configuration getAdvancedRAGConfig returns
  vectorSearchResults, \* input: chunk_text of each supplied search hit
  pending,             \* kind of the generation call in flight, or "none"
  callLog,             \* generation calls issued so far, in order
  failedAt,            \* kind of the call whose failure rejected the invocation
  expandedQueries,
  documents,
  rerankedDocuments,
  initialAnswer,
  critique,            \* result of the initial critiqueResponse
  finalAnswer,
  confidence,
  improvementAttempts,
  bestAnswer,
  bestScore,
  improvedAnswer,
  improvedCritique,
  critiqueGen,         \* what the generation call of the latest critique produced
  observed,            \* every (answer, score) pair critiqued in this invocation
  rejected,            \* generation calls that rejected: kind and position in callLog
  result,              \* the returned AdvancedRAGResult, or NoResult
  libCall,             \* a direct call of one component: its name and arguments
  libRet,              \* what that call returned, or NoRet before it ran
  records,             \* the records held by the Pinecone index
  now,                 \* Date.now(), in milliseconds since the server started
  httpResponse,        \* the body of the last HTTP response, or NoResponse
  pineconeIndex,       \* pinecone.ts: the cached Index handle, or "null"
  ensureCalls,         \* position and local hasIndex of each ensurePineconeIndex call
  controlPlane,        \* Pinecone: whether the index exists, and the create requests received
  sharedDefaults       \* the exported defaultAdvancedRAGConfig object as it is now

vars == << pc, config, vectorSearchResults, pending, callLog, failedAt,
           expandedQueries, documents, rerankedDocuments, initialAnswer,
           critique, finalAnswer, confidence, improvementAttempts, bestAnswer,
           bestScore, improvedAnswer, improvedCritique, critiqueGen, observed,
           rejected, result, libCall, libRet, records, now, httpResponse,
           pineconeIndex, ensureCalls, controlPlane, sharedDefaults >>

\* the variables of the HTTP server
serverVars == << records, now, httpResponse >>

\* the variables of the index handle of services/pinecone.ts
indexVars == << pineconeIndex, ensureCalls, controlPlane >>

\* the variables of the direct component calls and of the server
libVars == << libCall, libRet, serverVars, indexVars, sharedDefaults >>

NoResponse == [status |-> 0, route |-> "none", matches |-> <<>>]

\* the callers of ensurePineconeIndex / getPineconeIndex: the start-up
\* callback of app.listen and the request handlers
Callers == 1..NumCallers
NotCalled == [pc |-> "idle", hasIndex |-> FALSE]
IndexStart ==
  /\ pineconeIndex = "null"
  /\ ensureCalls = [ c \in Callers |-> NotCalled ]
  /\ controlPlane = [exists |-> FALSE, createCalls |-> 0]

ServerStart == records = {} /\ now = 0 /\ httpResponse = NoResponse /\ IndexStart

NoCall == [fn |-> "none"]
NoRet == [kind |-> "none"]

NoResult == [kind |-> "none"]
NoCritique == [score |-> -1, details |-> "none"]

\* --------------------------------------------------------- configuration
defaultAdvancedRAGConfig ==
  [ queryExpansion |-> [enabled |-> TRUE, numExpandedQueries |-> 3],
    selfCritique   |-> [enabled |-> TRUE, threshold |-> 7,
                        maxImprovementAttempts |-> 2],
    reranking      |-> [enabled |-> TRUE],
    synthesis      |-> [maxContextDocuments |-> 8] ]

\* the exported object before any call of getAdvancedRAGConfig
ConfigStart == sharedDefaults = defaultAdvancedRAGConfig

\* The configurations an invocation can run under: the defaults with the
\* environment overrides of getAdvancedRAGConfig, and the attempts knob.
Configs ==
  { [defaultAdvancedRAGConfig EXCEPT
       !.queryExpansion.enabled = e,
       !.selfCritique.threshold = t,
       !.selfCritique.maxImprovementAttempts = m] :
       e \in BOOLEAN, t \in Thresholds, m \in 0..MaxAttempts }

\* ------------------------------------------------------------ sequences
RECURSIVE SeqsUpTo(_, _)
SeqsUpTo(S, n) ==
  IF n = 0 THEN { <<>> }
  ELSE LET shorter == SeqsUpTo(S, n - 1)
       IN  shorter \cup { Append(s, x) : s \in { t \in shorter : Len(t) = n - 1 }, x \in S }

Min(a, b) == IF a < b THEN a ELSE b
Max(a, b) == IF a > b THEN a ELSE b

\* Array.prototype.slice(start, end): zero-based, end exclusive, negative
\* indices count from the end, out-of-range indices are clamped.
Slice(s, start, end) ==
  LET from == IF start < 0 THEN Max(Len(s) + start, 0) ELSE Min(start, Len(s))
      to   == IF end < 0 THEN Max(Len(s) + end, 0) ELSE Min(end, Len(s))
  IN  SubSeq(s, from + 1, to)

\* ----------------------------------------------------------------- text
IsSpace(c) == c \in {" ", "\n", "\t", "\r"}

RECURSIVE TrimLeft(_)
TrimLeft(t) ==
  IF t = <<>> THEN <<>>
  ELSE IF IsSpace(Head(t)) THEN TrimLeft(Tail(t)) ELSE t

RECURSIVE TrimRight(_)
TrimRight(t) ==
  IF t = <<>> THEN <<>>
  ELSE IF IsSpace(t[Len(t)]) THEN TrimRight(SubSeq(t, 1, Len(t) - 1)) ELSE t

\* String.prototype.trim
Trim(t) == TrimRight(TrimLeft(t))

\* String.prototype.split("\n"): the pieces between line breaks
RECURSIVE SplitLines(_, _)
SplitLines(t, cur) ==
  IF t = <<>> THEN <<cur>>
  ELSE IF Head(t) = "\n" THEN <<cur>> \o SplitLines(Tail(t), <<>>)
       ELSE SplitLines(Tail(t), Append(cur, Head(t)))

RECURSIVE MapTrim(_)
MapTrim(ls) == IF ls = <<>> THEN <<>> ELSE <<Trim(Head(ls))>> \o MapTrim(Tail(ls))

NonEmptyText(t) == Len(t) > 0

\* ------------------------------------------------------------ chunkText
\* The characters of the model's texts: letters, the space, and the
\* control characters line feed, carriage return and tab.
IsControl(c) == c \in {"\n", "\r", "\t"}

\* the positions of a text, in order
Positions(t) == [ i \in 1..Len(t) |-> i ]

\* .replace(/\r\n/g, "\n"): a carriage return that a line feed follows is
\* dropped
ReplaceCRLF(t) ==
  LET Kept(i) == ~(t[i] = "\r" /\ i < Len(t) /\ t[i + 1] = "\n")
      kept == SelectSeq(Positions(t), Kept)
  IN  [ j \in 1..Len(kept) |-> t[kept[j]] ]

\* .replace(/\t/g, " ")
ReplaceTabs(t) == [ i \in 1..Len(t) |-> IF t[i] = "\t" THEN " " ELSE t[i] ]

\* .replace(/[\u0000-\u001F\u007F]+/g, " "): each run of control characters
\* becomes one space
ReplaceControlRuns(t) ==
  LET Kept(i) == ~IsControl(t[i]) \/ i = 1 \/ ~IsControl(t[i - 1])
      kept == SelectSeq(Positions(t), Kept)
  IN  [ j \in 1..Len(kept) |-> IF IsControl(t[kept[j]]) THEN " " ELSE t[kept[j]] ]

\* .replace(/\s+$/gm, ""): no line terminator is left after the previous
\* step, so the only line end is the end of the text
StripLineEnds(t) == TrimRight(t)

\* chunkText, lines 8-13
normalize(text) ==
  Trim(StripLineEnds(ReplaceControlRuns(ReplaceTabs(ReplaceCRLF(text)))))

\* String.prototype.split(/\s+/): the pieces between runs of white space;
\* the empty text gives one empty piece
SplitWhitespace(t) ==
  LET RunStart(i) == IsSpace(t[i]) /\ (i = 1 \/ ~IsSpace(t[i - 1]))
      RunEnd(i) == IsSpace(t[i]) /\ (i = Len(t) \/ ~IsSpace(t[i + 1]))
      starts == SelectSeq(Positions(t), RunStart)
      ends == SelectSeq(Positions(t), RunEnd)
  IN  [ k \in 1..(Len(starts) + 1) |->
          SubSeq(t, IF k = 1 THEN 1 ELSE ends[k - 1] + 1,
                    IF k = Len(starts) + 1 THEN Len(t) ELSE starts[k] - 1) ]

\* Array.prototype.join(" ")
RECURSIVE Join(_)
Join(ws) ==
  IF ws = <<>> THEN <<>>
  ELSE IF Len(ws) = 1 THEN ws[1]
       ELSE ws[1] \o <<" ">> \o Join(Tail(ws))

\* current.reduce((acc, w) => acc + w.length + 1, 0)
RECURSIVE LengthOf(_)
LengthOf(ws) == IF ws = <<>> THEN 0 ELSE Len(Head(ws)) + 1 + LengthOf(Tail(ws))

\* line 22 with the comparison inverted: a chunk is closed while it has room
ShouldCloseInverted(currentLength, len, chunkSize, currentCount) ==
  currentLength + len < chunkSize /\ currentCount > 0

\* line 22 with >= for >: a chunk is closed one character early
ShouldCloseInclusive(currentLength, len, chunkSize, currentCount) ==
  currentLength + len >= chunkSize /\ currentCount > 0

\* chunkText, line 22: the current chunk is closed before the word is added
ShouldClose(currentLength, len, chunkSize, currentCount) ==
  currentLength + len > chunkSize /\ currentCount > 0

\* chunkText, lines 25-32: the words the next chunk starts with
SeedWords(current, chunkOverlap) ==
  IF chunkOverlap > 0
  THEN LET overlapWords == Max(0, chunkOverlap \div 6)
       IN  Slice(current, 0 - overlapWords, Len(current))
  ELSE <<>>

\* chunkText without its line 37: the words still held at the end are lost
FlushLastDropped(chunks, st) == chunks

\* chunkText, line 37
FlushLast(chunks, st) ==
  IF Len(st.current) > 0
  THEN Append(chunks, [words |-> st.current, seeded |-> st.seeded])
  ELSE chunks

\* chunkText, lines 20-36: one iteration of the loop.  A chunk is kept as
\* its word list together with the number of words it was seeded with.
ChunkStep(st, word, chunkSize, chunkOverlap) ==
  LET len == Len(word) + 1
      closing == ShouldClose(st.currentLength, len, chunkSize, Len(st.current))
      seed == SeedWords(st.current, chunkOverlap)
      chunks1 == IF closing
                 THEN Append(st.chunks, [words |-> st.current, seeded |-> st.seeded])
                 ELSE st.chunks
      current1 == IF closing THEN seed ELSE st.current
      length1 == IF closing THEN LengthOf(seed) ELSE st.currentLength
  IN  [ chunks |-> chunks1,
        current |-> Append(current1, word),
        currentLength |-> length1 + len,
        seeded |-> IF closing THEN Len(seed) ELSE st.seeded ]

RECURSIVE ChunkLoop(_, _, _, _)
ChunkLoop(words, st, chunkSize, chunkOverlap) ==
  IF words = <<>> THEN FlushLast(st.chunks, st)
  ELSE ChunkLoop(Tail(words), ChunkStep(st, Head(words), chunkSize, chunkOverlap),
                 chunkSize, chunkOverlap)

\* chunkText, lines 15-38, with each chunk still a word list
chunkWords(text, chunkSize, chunkOverlap) ==
  ChunkLoop(SplitWhitespace(normalize(text)),
            [chunks |-> <<>>, current |-> <<>>, currentLength |-> 0, seeded |-> 0],
            chunkSize, chunkOverlap)

\* chunkText
chunkText(text, chunkSize, chunkOverlap) ==
  LET cs == chunkWords(text, chunkSize, chunkOverlap)
  IN  [ i \in 1..Len(cs) |-> Join(cs[i].words) ]

\* ------------------------------------------- environment overrides
Digits == {"0", "1", "2", "3", "4", "5", "6", "7", "8", "9"}
DigitValue(c) ==
  CASE c = "0" -> 0 [] c = "1" -> 1 [] c = "2" -> 2 [] c = "3" -> 3 [] c = "4" -> 4
    [] c = "5" -> 5 [] c = "6" -> 6 [] c = "7" -> 7 [] c = "8" -> 8 [] c = "9" -> 9

\* a parsed number, or NaN
NaN == [nan |-> TRUE, value |-> 0]
Num(n) == [nan |-> FALSE, value |-> n]
isNaN(v) == v.nan

\* the value of the longest prefix of digits, acc being the value so far
RECURSIVE DigitsPrefix(_, _)
DigitsPrefix(t, acc) ==
  IF t = <<>> \/ Head(t) \notin Digits THEN acc
  ELSE DigitsPrefix(Tail(t), 10 * acc + DigitValue(Head(t)))

\* parseInt(string): leading white space skipped, an optional sign, then the
\* longest run of decimal digits; NaN when there is no digit
parseInt(str) ==
  LET t == TrimLeft(str)
      signed == t # <<>> /\ Head(t) \in {"-", "+"}
      body == IF signed THEN Tail(t) ELSE t
  IN  IF body = <<>> \/ Head(body) \notin Digits THEN NaN
      ELSE IF signed /\ Head(t) = "-" THEN Num(0 - DigitsPrefix(body, 0))
           ELSE Num(DigitsPrefix(body, 0))

\* an environment variable: undefined, or a string
Unset == [set |-> FALSE, value |-> <<>>]
EnvString(str) == [set |-> TRUE, value |-> str]
\* the threshold variable is given with the result parseFloat has on it
UnsetNumber == [set |-> FALSE, parsed |-> NaN]
EnvNumber(parsed) == [set |-> TRUE, parsed |-> parsed]

NoEnv == [ADVANCED_RAG_QUERY_EXPANSION_ENABLED |-> Unset,
          ADVANCED_RAG_SELF_CRITIQUE_ENABLED |-> Unset,
          ADVANCED_RAG_RERANKING_ENABLED |-> Unset,
          ADVANCED_RAG_CRITIQUE_THRESHOLD |-> UnsetNumber,
          ADVANCED_RAG_MAX_CONTEXT_DOCS |-> Unset]

\* getAdvancedRAGConfig (part_001 lines 88-127) on the given defaults: the
\* boolean override is the comparison with "true", the threshold override
\* is the parsed number (tenths) unless NaN, the document limit goes
\* through parseInt.
getAdvancedRAGConfig(defaults, env) ==
  LET e  == env.ADVANCED_RAG_QUERY_EXPANSION_ENABLED
      s  == env.ADVANCED_RAG_SELF_CRITIQUE_ENABLED
      r  == env.ADVANCED_RAG_RERANKING_ENABLED
      t  == env.ADVANCED_RAG_CRITIQUE_THRESHOLD
      d  == env.ADVANCED_RAG_MAX_CONTEXT_DOCS
      true == <<"t", "r", "u", "e">>
      c1 == IF e.set
            THEN [defaults EXCEPT !.queryExpansion.enabled = (e.value = true)]
            ELSE defaults
      c2 == IF s.set
            THEN [c1 EXCEPT !.selfCritique.enabled = (s.value = true)]
            ELSE c1
      c3 == IF r.set
            THEN [c2 EXCEPT !.reranking.enabled = (r.value = true)]
            ELSE c2
      c4 == IF t.set /\ ~isNaN(t.parsed)
            THEN [c3 EXCEPT !.selfCritique.threshold = t.parsed.value]
            ELSE c3
  IN  IF d.set /\ ~isNaN(parseInt(d.value))
      THEN [c4 EXCEPT !.synthesis.maxContextDocuments = parseInt(d.value).value]
      ELSE c4

\* --------------------------------------------------------- components
\* Variant of generateExpandedQueries: the survivors are not capped.
generateExpandedQueriesUncapped(originalQuery, numQueries, completion) ==
  <<originalQuery>> \o
    SelectSeq(MapTrim(SplitLines(Trim(completion), <<>>)), NonEmptyText)

\* generateExpandedQueries after its completion arrived (lines 107-115)
generateExpandedQueries(originalQuery, numQueries, completion) ==
  LET response == Trim(completion)
      queries  == Slice(SelectSeq(MapTrim(SplitLines(response, <<>>)), NonEmptyText),
                        0, numQueries)
  IN  <<originalQuery>> \o queries

\* generateExpandedQueries as a whole (lines 77-116): what it returns and
\* how many generation calls it made, given the completion the service
\* would send.
generateExpandedQueriesCall(enabled, originalQuery, numQueries, completion) ==
  IF ~enabled
  THEN [kind |-> "queries", queries |-> <<originalQuery>>, genCalls |-> 0]
  ELSE [kind |-> "queries",
        queries |-> generateExpandedQueries(originalQuery, numQueries, completion),
        genCalls |-> 1]

\* Variants of Rejects: a try/catch around the answer synthesis; no
\* try/catch in critiqueResponse.
RejectsExpansionOnly(call) == call = "expansion"
RejectsEveryCall(call) == call \in {"expansion", "synthesis", "critique"}

\* The generation calls that are issued outside any try/catch: their
\* rejection rejects advancedRAGQuery.  The critique call sits in a try.
Rejects(call) == call \in {"expansion", "synthesis"}

\* What the critique's generation call produced: the call failed, the text
\* is not JSON, the text is the JSON literal null, or a JSON object whose
\* score field is the given number (0 when absent).
CritiqueGens ==
  { [kind |-> "fail", score |-> 0], [kind |-> "nonjson", score |-> 0],
    [kind |-> "null", score |-> 0] }
  \cup { [kind |-> "json", score |-> s] : s \in JsonScores }

FallbackCritique == [score |-> 5, details |-> "Failed to parse critique"]

\* critiqueResponse, lines 153-180: everything thrown inside the try
\* (rejected call, JSON.parse error, property access on null) is caught.
critiqueResponse(gen) ==
  IF gen.kind \in {"fail", "nonjson", "null"}
  THEN FallbackCritique
  ELSE [score |-> IF gen.score # 0 THEN gen.score ELSE 0, details |-> "parsed"]

\* rerankDocuments: both branches attach 1.0 - index * 0.1
rerankDocuments(docs) ==
  [ i \in 1..Len(docs) |-> [text |-> docs[i], relevanceScore |-> 10 - (i - 1)] ]

\* rerankDocuments as a whole (lines 186-208): the disabled branch and the
\* delegating branch compute the same list
rerankDocumentsCall(enabled, docs) ==
  IF ~enabled THEN rerankDocuments(docs) ELSE rerankDocuments(docs)

Texts(ranked) == [ i \in 1..Len(ranked) |-> ranked[i].text ]

\* synthesizeAnswer, lines 220-224: the passages embedded in the prompt
selectedDocs(docs, cfg) ==
  LET contextLimit == Min(Len(docs), cfg.synthesis.maxContextDocuments)
  IN  Slice(docs, 0, contextLimit)

\* synthesizeAnswer, line 230: the selected passages as the prompt shows
\* them, each under its 1-based number
promptDocuments(docs, cfg) ==
  [ i \in 1..Len(selectedDocs(docs, cfg)) |->
      [number |-> i, doc |-> selectedDocs(docs, cfg)[i]] ]

\* advancedRAGQuery, lines 291-293
HasText(t) == t # ""
ExtractDocuments(results) == SelectSeq(results, HasText)

\* Variant of NeedsImprovement: the threshold itself counts as low.
NeedsImprovementInclusive(score, threshold) == score <= threshold

\* advancedRAGQuery, line 347
NeedsImprovement(score, threshold) == score < threshold

\* Variant of LoopContinues: one attempt too many.
LoopContinuesInclusive(attempts, maxAttempts) == attempts <= maxAttempts

\* advancedRAGQuery, line 356
LoopContinues(attempts, maxAttempts) == attempts < maxAttempts

\* Variant of HighConfidence: the cutoff itself counts as high.
HighConfidenceInclusive(d) == d.relevanceScore >= 7

\* advancedRAGQuery, lines 360-362
HighConfidence(d) == d.relevanceScore > 7
topDocuments(ranked) == Texts(SelectSeq(ranked, HighConfidence))

\* advancedRAGQuery, line 376
Improves(score, best) == score > best

\* advancedRAGQuery, line 386
ReachedGoodScore(best, threshold) == best >= threshold

\* Variant of ResultCritiqueScore: report the latest critique.
ResultCritiqueScoreLatest(initial, improved) ==
  IF improved.details # "none" THEN improved.score ELSE initial.score

\* advancedRAGQuery, line 401
ResultCritiqueScore(initial, improved) == initial.score

\* advancedRAGQuery, lines 395-403
MakeResult ==
  [ kind              |-> "result",
    query             |-> query,
    expandedQueries   |-> expandedQueries,
    documents         |-> documents,
    rerankedDocuments |-> rerankedDocuments,
    finalAnswer       |-> finalAnswer,
    critiqueScore     |-> ResultCritiqueScore(critique, improvedCritique),
    confidence        |-> confidence ]

\* advancedRAGQuery, lines 300-312
EmptyResult ==
  [ kind              |-> "result",
    query             |-> query,
    expandedQueries   |-> <<query>>,
    documents         |-> <<>>,
    rerankedDocuments |-> <<>>,
    finalAnswer       |-> InsufficientAnswer,
    critiqueScore     |-> 0,
    confidence        |-> 0 ]

Call(kind, docs) == [kind |-> kind, docs |-> docs]

\* ------------------------------------------------------------------ Init
\* advancedRAGQuery is entered under one of the configurations cfgs with one
\* of the hit lists inputs
InitWith(cfgs, inputs) ==
  /\ pc = "EXPAND"
  /\ config \in cfgs
  /\ vectorSearchResults \in inputs
  /\ pending = "none"
  /\ callLog = <<>>
  /\ failedAt = "none"
  /\ expandedQueries = <<>>
  /\ documents = <<>>
  /\ rerankedDocuments = <<>>
  /\ initialAnswer = ""
  /\ critique = NoCritique
  /\ finalAnswer = ""
  /\ confidence = -1
  /\ improvementAttempts = 0
  /\ bestAnswer = ""
  /\ bestScore = -1
  /\ improvedAnswer = ""
  /\ improvedCritique = NoCritique
  /\ critiqueGen = [kind |-> "none", score |-> 0]
  /\ observed = <<>>
  /\ rejected = <<>>
  /\ result = NoResult
  /\ libCall = NoCall
  /\ libRet = NoRet
  /\ ServerStart
  /\ ConfigStart

Init == InitWith(Configs, SeqsUpTo(ChunkTexts, MaxResults))

\* --------------------------------------------------- Step 1: expansion
\* generateExpandedQueries with expansion disabled (lines 83-85)
ExpandSkip ==
  /\ pc = "EXPAND"
  /\ ~config.queryExpansion.enabled
  /\ expandedQueries' = <<query>>
  /\ pc' = "CHECK_EMPTY"
  /\ UNCHANGED << config, vectorSearchResults, pending, callLog, failedAt,
                  documents, rerankedDocuments, initialAnswer, critique,
                  finalAnswer, confidence, improvementAttempts, bestAnswer,
                  bestScore, improvedAnswer, improvedCritique, critiqueGen,
                  observed, result, rejected, libVars >>

\* generateExpandedQueries issues its generation call (line 94)
ExpandCall ==
  /\ pc = "EXPAND"
  /\ config.queryExpansion.enabled
  /\ pending' = "expansion"
  /\ callLog' = Append(callLog, Call("expansion", <<>>))
  /\ pc' = "EXPAND_WAIT"
  /\ UNCHANGED << config, vectorSearchResults, failedAt, expandedQueries,
                  documents, rerankedDocuments, initialAnswer, critique,
                  finalAnswer, confidence, improvementAttempts, bestAnswer,
                  bestScore, improvedAnswer, improvedCritique, critiqueGen,
                  observed, result, rejected, libVars >>

\* The expansion call resolves (lines 107-115, 279-283)
ExpandReturn ==
  /\ pc = "EXPAND_WAIT"
  /\ \E completion \in ExpansionResponses :
       expandedQueries' =
         generateExpandedQueries(query, config.queryExpansion.numExpandedQueries,
                                 completion)
  /\ pending' = "none"
  /\ pc' = "CHECK_EMPTY"
  /\ UNCHANGED << config, vectorSearchResults, callLog, failedAt, documents,
                  rerankedDocuments, initialAnswer, critique, finalAnswer,
                  confidence, improvementAttempts, bestAnswer, bestScore,
                  improvedAnswer, improvedCritique, critiqueGen, observed,
                  result, rejected, libVars >>

\* The expansion call rejects: nothing catches it, a caught failure would
\* read as an empty completion.
ExpandFail ==
  /\ pc = "EXPAND_WAIT"
  /\ pending' = "none"
  /\ rejected' = Append(rejected, [kind |-> "expansion", at |-> Len(callLog)])
  /\ IF Rejects("expansion")
     THEN /\ pc' = "FAILED"
          /\ failedAt' = "expansion"
          /\ UNCHANGED expandedQueries
     ELSE /\ pc' = "CHECK_EMPTY"
          /\ expandedQueries' =
               generateExpandedQueries(query,
                 config.queryExpansion.numExpandedQueries, <<>>)
          /\ UNCHANGED failedAt
  /\ UNCHANGED << config, vectorSearchResults, callLog, documents,
                  rerankedDocuments, initialAnswer, critique, finalAnswer,
                  confidence, improvementAttempts, bestAnswer, bestScore,
                  improvedAnswer, improvedCritique, critiqueGen, observed,
                  result, libVars >>

\* ------------------------------------- Step 3: extraction, empty check
\* lines 291-312
CheckEmpty ==
  /\ pc = "CHECK_EMPTY"
  /\ documents' = ExtractDocuments(vectorSearchResults)
  /\ IF Len(documents') = 0
     THEN /\ result' = EmptyResult
          /\ pc' = "DONE"
     ELSE /\ pc' = "RANK"
          /\ UNCHANGED result
  /\ UNCHANGED << config, vectorSearchResults, pending, callLog, failedAt,
                  expandedQueries, rerankedDocuments, initialAnswer, critique,
                  finalAnswer, confidence, improvementAttempts, bestAnswer,
                  bestScore, improvedAnswer, improvedCritique, critiqueGen,
                  observed, rejected, libVars >>

\* ------------------------------------------------------ Step 4: rerank
\* line 316
Rank ==
  /\ pc = "RANK"
  /\ rerankedDocuments' = rerankDocuments(documents)
  /\ pc' = "SYNTHESIZE_INITIAL"
  /\ UNCHANGED << config, vectorSearchResults, pending, callLog, failedAt,
                  expandedQueries, documents, initialAnswer, critique,
                  finalAnswer, confidence, improvementAttempts, bestAnswer,
                  bestScore, improvedAnswer, improvedCritique, critiqueGen,
                  observed, result, rejected, libVars >>

\* -------------------------------------------- Step 5: initial synthesis
\* synthesizeAnswer over all reranked texts issues its call (lines 326, 246)
SynthInitialCall ==
  /\ pc = "SYNTHESIZE_INITIAL"
  /\ pending' = "synthesis"
  /\ callLog' = Append(callLog,
                  Call("synthesis", selectedDocs(Texts(rerankedDocuments), config)))
  /\ pc' = "SYNTHESIZE_INITIAL_WAIT"
  /\ UNCHANGED << config, vectorSearchResults, failedAt, expandedQueries,
                  documents, rerankedDocuments, initialAnswer, critique,
                  finalAnswer, confidence, improvementAttempts, bestAnswer,
                  bestScore, improvedAnswer, improvedCritique, critiqueGen,
                  observed, result, rejected, libVars >>

\* the call resolves with an answer text (lines 260-263, 326)
SynthInitialReturn ==
  /\ pc = "SYNTHESIZE_INITIAL_WAIT"
  /\ \E answer \in AnswerTexts : initialAnswer' = answer
  /\ pending' = "none"
  /\ pc' = "CRITIQUE_INITIAL"
  /\ UNCHANGED << config, vectorSearchResults, callLog, failedAt,
                  expandedQueries, documents, rerankedDocuments, critique,
                  finalAnswer, confidence, improvementAttempts, bestAnswer,
                  bestScore, improvedAnswer, improvedCritique, critiqueGen,
                  observed, result, rejected, libVars >>

\* the call rejects
SynthInitialFail ==
  /\ pc = "SYNTHESIZE_INITIAL_WAIT"
  /\ pending' = "none"
  /\ rejected' = Append(rejected, [kind |-> "synthesis", at |-> Len(callLog)])
  /\ IF Rejects("synthesis")
     THEN /\ pc' = "FAILED"
          /\ failedAt' = "synthesis"
          /\ UNCHANGED initialAnswer
     ELSE /\ pc' = "CRITIQUE_INITIAL"
          /\ initialAnswer' = ""
          /\ UNCHANGED failedAt
  /\ UNCHANGED << config, vectorSearchResults, callLog, expandedQueries,
                  documents, rerankedDocuments, critique, finalAnswer,
                  confidence, improvementAttempts, bestAnswer, bestScore,
                  improvedAnswer, improvedCritique, critiqueGen, observed,
                  result, libVars >>

\* ---------------------------------------------- Step 6: initial critique
\* critiqueResponse issues its call (lines 336, 154)
CritiqueInitialCall ==
  /\ pc = "CRITIQUE_INITIAL"
  /\ pending' = "critique"
  /\ callLog' = Append(callLog, Call("critique", Texts(rerankedDocuments)))
  /\ pc' = "CRITIQUE_INITIAL_WAIT"
  /\ UNCHANGED << config, vectorSearchResults, failedAt, expandedQueries,
                  documents, rerankedDocuments, initialAnswer, critique,
                  finalAnswer, confidence, improvementAttempts, bestAnswer,
                  bestScore, improvedAnswer, improvedCritique, critiqueGen,
                  observed, result, rejected, libVars >>

\* A completion that makes the body of the try throw
Throws(gen) == gen.kind \in {"fail", "nonjson", "null"}

\* critiqueResponse settles; lines 344-354 run on its result
CritiqueInitialReturn ==
  /\ pc = "CRITIQUE_INITIAL_WAIT"
  /\ pending' = "none"
  /\ \E gen \in CritiqueGens :
       /\ critiqueGen' = gen
       /\ rejected' = IF gen.kind = "fail"
                      THEN Append(rejected, [kind |-> "critique", at |-> Len(callLog)])
                      ELSE rejected
       /\ IF Throws(gen) /\ Rejects("critique")
          THEN /\ pc' = "FAILED"
               /\ failedAt' = "critique"
               /\ UNCHANGED << critique, finalAnswer, confidence,
                               improvementAttempts, bestAnswer, bestScore,
                               observed >>
          ELSE /\ critique' = critiqueResponse(gen)
               /\ observed' = Append(observed,
                                [answer |-> initialAnswer,
                                 score |-> critique'.score])
               /\ finalAnswer' = initialAnswer
               /\ confidence' = critique'.score
               /\ IF NeedsImprovement(critique'.score, config.selfCritique.threshold)
                  THEN /\ improvementAttempts' = 0
                       /\ bestAnswer' = initialAnswer
                       /\ bestScore' = critique'.score
                       /\ pc' = "LOOP_HEAD"
                  ELSE /\ pc' = "RETURN"
                       /\ UNCHANGED << improvementAttempts, bestAnswer, bestScore >>
               /\ UNCHANGED failedAt
  /\ UNCHANGED << config, vectorSearchResults, callLog, expandedQueries,
                  documents, rerankedDocuments, initialAnswer,
                  improvedAnswer, improvedCritique, result, libVars >>

\* ---------------------------------------------- Step 7: improvement loop
\* loop test, attempt count, filter, and the candidate's synthesis call
\* (lines 356-369)
LoopHead ==
  /\ pc = "LOOP_HEAD"
  /\ IF LoopContinues(improvementAttempts,
                      config.selfCritique.maxImprovementAttempts)
     THEN /\ improvementAttempts' = improvementAttempts + 1
          /\ IF Len(topDocuments(rerankedDocuments)) > 0
             THEN /\ pending' = "synthesis"
                  /\ callLog' = Append(callLog,
                       Call("synthesis",
                            selectedDocs(topDocuments(rerankedDocuments), config)))
                  /\ pc' = "IMPROVE_SYNTH_WAIT"
             ELSE /\ pc' = "LOOP_TAIL"
                  /\ UNCHANGED << pending, callLog >>
     ELSE /\ pc' = "LOOP_EXIT"
          /\ UNCHANGED << improvementAttempts, pending, callLog >>
  /\ UNCHANGED << config, vectorSearchResults, failedAt, expandedQueries,
                  documents, rerankedDocuments, initialAnswer, critique,
                  finalAnswer, confidence, bestAnswer, bestScore,
                  improvedAnswer, improvedCritique, critiqueGen, observed,
                  result, rejected, libVars >>

\* line 365 without lines 370-374: the candidate is compared by the stale
\* critique and the loop goes on to the next synthesis
ImproveSynthReturnUncritiqued ==
  /\ pc = "IMPROVE_SYNTH_WAIT"
  /\ \E answer \in AnswerTexts : improvedAnswer' = answer
  /\ pending' = "none"
  /\ pc' = "LOOP_TAIL"
  /\ UNCHANGED << config, vectorSearchResults, callLog, failedAt,
                  expandedQueries, documents, rerankedDocuments,
                  initialAnswer, critique, finalAnswer, confidence,
                  improvementAttempts, bestAnswer, bestScore,
                  improvedCritique, critiqueGen, observed, result, rejected, libVars >>

\* the candidate's synthesis call resolves (line 365)
ImproveSynthReturn ==
  /\ pc = "IMPROVE_SYNTH_WAIT"
  /\ \E answer \in AnswerTexts : improvedAnswer' = answer
  /\ pending' = "none"
  /\ pc' = "IMPROVE_CRITIQUE"
  /\ UNCHANGED << config, vectorSearchResults, callLog, failedAt,
                  expandedQueries, documents, rerankedDocuments,
                  initialAnswer, critique, finalAnswer, confidence,
                  improvementAttempts, bestAnswer, bestScore,
                  improvedCritique, critiqueGen, observed, result, rejected, libVars >>

\* the candidate's synthesis call rejects
ImproveSynthFail ==
  /\ pc = "IMPROVE_SYNTH_WAIT"
  /\ pending' = "none"
  /\ rejected' = Append(rejected, [kind |-> "synthesis", at |-> Len(callLog)])
  /\ IF Rejects("synthesis")
     THEN /\ pc' = "FAILED"
          /\ failedAt' = "synthesis"
          /\ UNCHANGED improvedAnswer
     ELSE /\ pc' = "IMPROVE_CRITIQUE"
          /\ improvedAnswer' = ""
          /\ UNCHANGED failedAt
  /\ UNCHANGED << config, vectorSearchResults, callLog, expandedQueries,
                  documents, rerankedDocuments, initialAnswer, critique,
                  finalAnswer, confidence, improvementAttempts, bestAnswer,
                  bestScore, improvedCritique, critiqueGen, observed,
                  result, libVars >>

\* critiqueResponse on the candidate issues its call (lines 370, 154)
ImproveCritiqueCall ==
  /\ pc = "IMPROVE_CRITIQUE"
  /\ pending' = "critique"
  /\ callLog' = Append(callLog, Call("critique", topDocuments(rerankedDocuments)))
  /\ pc' = "IMPROVE_CRITIQUE_WAIT"
  /\ UNCHANGED << config, vectorSearchResults, failedAt, expandedQueries,
                  documents, rerankedDocuments, initialAnswer, critique,
                  finalAnswer, confidence, improvementAttempts, bestAnswer,
                  bestScore, improvedAnswer, improvedCritique, critiqueGen,
                  observed, result, rejected, libVars >>

\* critiqueResponse settles; accept or discard the candidate (lines 370-382)
ImproveCritiqueReturn ==
  /\ pc = "IMPROVE_CRITIQUE_WAIT"
  /\ pending' = "none"
  /\ \E gen \in CritiqueGens :
       /\ critiqueGen' = gen
       /\ rejected' = IF gen.kind = "fail"
                      THEN Append(rejected, [kind |-> "critique", at |-> Len(callLog)])
                      ELSE rejected
       /\ IF Throws(gen) /\ Rejects("critique")
          THEN /\ pc' = "FAILED"
               /\ failedAt' = "critique"
               /\ UNCHANGED << improvedCritique, bestAnswer, confidence, observed >>
          ELSE /\ improvedCritique' = critiqueResponse(gen)
               /\ observed' = Append(observed,
                                [answer |-> improvedAnswer,
                                 score |-> improvedCritique'.score])
               /\ IF Improves(improvedCritique'.score, bestScore)
                  THEN /\ bestAnswer' = improvedAnswer
                       /\ confidence' = improvedCritique'.score
                  ELSE UNCHANGED << bestAnswer, confidence >>
               /\ pc' = "LOOP_TAIL"
               /\ UNCHANGED failedAt
  /\ UNCHANGED << config, vectorSearchResults, callLog, expandedQueries,
                  documents, rerankedDocuments, initialAnswer, critique,
                  finalAnswer, improvementAttempts, bestScore,
                  improvedAnswer, result, libVars >>

\* the early-stop test at the end of an iteration (lines 385-388)
LoopTail ==
  /\ pc = "LOOP_TAIL"
  /\ pc' = IF ReachedGoodScore(bestScore, config.selfCritique.threshold)
           THEN "LOOP_EXIT" ELSE "LOOP_HEAD"
  /\ UNCHANGED << config, vectorSearchResults, pending, callLog, failedAt,
                  expandedQueries, documents, rerankedDocuments,
                  initialAnswer, critique, finalAnswer, confidence,
                  improvementAttempts, bestAnswer, bestScore, improvedAnswer,
                  improvedCritique, critiqueGen, observed, result, rejected, libVars >>

\* after the loop (lines 391-392)
LoopExit ==
  /\ pc = "LOOP_EXIT"
  /\ finalAnswer' = bestAnswer
  /\ confidence' = bestScore
  /\ pc' = "RETURN"
  /\ UNCHANGED << config, vectorSearchResults, pending, callLog, failedAt,
                  expandedQueries, documents, rerankedDocuments,
                  initialAnswer, critique, improvementAttempts, bestAnswer,
                  bestScore, improvedAnswer, improvedCritique, critiqueGen,
                  observed, result, rejected, libVars >>

\* the return statement (lines 395-403)
Return ==
  /\ pc = "RETURN"
  /\ result' = MakeResult
  /\ pc' = "DONE"
  /\ UNCHANGED << config, vectorSearchResults, pending, callLog, failedAt,
                  expandedQueries, documents, rerankedDocuments,
                  initialAnswer, critique, finalAnswer, confidence,
                  improvementAttempts, bestAnswer, bestScore, improvedAnswer,
                  improvedCritique, critiqueGen, observed, rejected, libVars >>

Next ==
  \/ ExpandSkip \/ ExpandCall \/ ExpandReturn \/ ExpandFail
  \/ CheckEmpty \/ Rank
  \/ SynthInitialCall \/ SynthInitialReturn \/ SynthInitialFail
  \/ CritiqueInitialCall \/ CritiqueInitialReturn
  \/ LoopHead
  \/ ImproveSynthReturn \/ ImproveSynthFail
  \/ ImproveCritiqueCall \/ ImproveCritiqueReturn
  \/ LoopTail \/ LoopExit \/ Return

Spec == Init /\ [][Next]_vars

\* advancedRAGQuery over longer lists of distinct passages, at the default
\* threshold
Passages == <<"A", "B", "C", "D", "E", "F">>
RankedConfigs == { c \in Configs : c.selfCritique.threshold = 7 }
RankedInputs == { SubSeq(Passages, 1, n) : n \in 1..MaxRanked }
RankedInit == InitWith(RankedConfigs, RankedInputs)
RankedSpec == RankedInit /\ [][Next]_vars

\* The event loop resumes every continuation and the generation service
\* settles every call, so an enabled step is eventually taken.
FairSpec == Spec /\ WF_vars(Next)

TypeOK ==
  /\ pc \in {"EXPAND", "EXPAND_WAIT", "CHECK_EMPTY", "RANK", "SYNTHESIZE_INITIAL",
             "SYNTHESIZE_INITIAL_WAIT", "CRITIQUE_INITIAL", "CRITIQUE_INITIAL_WAIT",
             "LOOP_HEAD", "IMPROVE_SYNTH_WAIT", "IMPROVE_CRITIQUE",
             "IMPROVE_CRITIQUE_WAIT", "LOOP_TAIL", "LOOP_EXIT", "RETURN", "DONE",
             "FAILED", "IDLE"}
  /\ pending \in {"none", "expansion", "synthesis", "critique"}
  /\ improvementAttempts \in 0..(MaxAttempts + 1)

\* ============================================= direct component calls
\* Each component is also called on its own, with arguments drawn from
\* bounded sets; advancedRAGQuery stays idle meanwhile.
Idle ==
  /\ pc = "IDLE"
  /\ config = defaultAdvancedRAGConfig
  /\ vectorSearchResults = <<>>
  /\ pending = "none"
  /\ callLog = <<>>
  /\ failedAt = "none"
  /\ expandedQueries = <<>>
  /\ documents = <<>>
  /\ rerankedDocuments = <<>>
  /\ initialAnswer = ""
  /\ critique = NoCritique
  /\ finalAnswer = ""
  /\ confidence = -1
  /\ improvementAttempts = 0
  /\ bestAnswer = ""
  /\ bestScore = -1
  /\ improvedAnswer = ""
  /\ improvedCritique = NoCritique
  /\ critiqueGen = [kind |-> "none", score |-> 0]
  /\ observed = <<>>
  /\ rejected = <<>>
  /\ result = NoResult
  /\ ServerStart
  /\ ConfigStart

ragVars == << pc, config, vectorSearchResults, pending, callLog, failedAt,
              expandedQueries, documents, rerankedDocuments, initialAnswer,
              critique, finalAnswer, confidence, improvementAttempts,
              bestAnswer, bestScore, improvedAnswer, improvedCritique,
              critiqueGen, observed, rejected, result >>

\* ---- generateExpandedQueries
CompletionChars == {"x", " ", "\n"}
OriginalQueries == { <<"q">>, <<" ", "q", "\n">> }

ExpandCalls ==
  { [fn |-> "generateExpandedQueries", enabled |-> e, originalQuery |-> q,
     numQueries |-> n, completion |-> c] :
      e \in BOOLEAN, q \in OriginalQueries, n \in 0..MaxNumQueries,
      c \in SeqsUpTo(CompletionChars, MaxCompletionLen) }

RunExpand ==
  /\ libCall.fn = "generateExpandedQueries"
  /\ libRet = NoRet
  /\ libRet' = generateExpandedQueriesCall(libCall.enabled, libCall.originalQuery,
                                           libCall.numQueries, libCall.completion)
  /\ UNCHANGED << ragVars, libCall, serverVars, indexVars, sharedDefaults >>

ExpandInit == Idle /\ libRet = NoRet /\ libCall \in ExpandCalls
ExpandNext == RunExpand
ExpandSpec == ExpandInit /\ [][ExpandNext]_vars

\* ---- synthesizeAnswer
PassageTexts == {"A", "B", "C"}
\* values of ADVANCED_RAG_MAX_CONTEXT_DOCS
EnvMaxContextDocs ==
  { Unset } \cup
  { EnvString(str) : str \in { <<>>, <<"a">>, <<"0">>, <<"1">>, <<"2">>,
                               <<"2", "x">>, <<"1", "0">>, <<"-", "1">>,
                               <<" ", "3">> } }

SynthCalls ==
  { [fn |-> "synthesizeAnswer", documents |-> ds,
     env |-> [NoEnv EXCEPT !.ADVANCED_RAG_MAX_CONTEXT_DOCS = v]] :
      ds \in SeqsUpTo(PassageTexts, MaxPassages), v \in EnvMaxContextDocs }

\* synthesizeAnswer up to the prompt it sends (lines 219-230)
RunSynth ==
  /\ libCall.fn = "synthesizeAnswer"
  /\ libRet = NoRet
  /\ LET cfg == getAdvancedRAGConfig(sharedDefaults, libCall.env)
     IN  /\ libRet' = [kind |-> "prompt",
                       limit |-> cfg.synthesis.maxContextDocuments,
                       documents |-> promptDocuments(libCall.documents, cfg)]
         /\ sharedDefaults' = cfg
  /\ UNCHANGED << ragVars, libCall, serverVars, indexVars >>

SynthInit == Idle /\ libRet = NoRet /\ libCall \in SynthCalls
SynthNext == RunSynth
SynthSpec == SynthInit /\ [][SynthNext]_vars

\* ---- rerankDocuments
RankTexts == {"A", "B"}

RankCalls ==
  { [fn |-> "rerankDocuments", enabled |-> e, documents |-> ds] :
      e \in BOOLEAN, ds \in SeqsUpTo(RankTexts, MaxRankDocs) }

RunRerank ==
  /\ libCall.fn = "rerankDocuments"
  /\ libRet = NoRet
  /\ libRet' = [kind |-> "ranked",
                ranked |-> rerankDocumentsCall(libCall.enabled, libCall.documents)]
  /\ UNCHANGED << ragVars, libCall, serverVars, indexVars, sharedDefaults >>

RankInit == Idle /\ libRet = NoRet /\ libCall \in RankCalls
RankNext == RunRerank
RankSpec == RankInit /\ [][RankNext]_vars

\* ---- chunkText
TextChars == {"a", " ", "\n", "\r", "\t"}
Rep(c, n) == [ i \in 1..n |-> c ]
SmallWords == { Rep("a", 1), Rep("b", 2), Rep("c", 3) }
LongWords == { Rep("x", 99), Rep("y", 30) }
SmallOverlaps == {0, 3, 6, 12}
\* chunkSize and chunkOverlap as UploadSchema admits them (server.ts 38-39)
UploadChunkSizes == {200, 260}
UploadOverlaps == {0, 5, 6, 200, 1000}

WordTexts(W) == { Join(ws) : ws \in SeqsUpTo(W, MaxWords) }

ChunkCalls ==
  { [fn |-> "chunkText", text |-> t, chunkSize |-> cs, chunkOverlap |-> ov] :
      t \in SeqsUpTo(TextChars, MaxTextLen) \cup WordTexts(SmallWords),
      cs \in 1..MaxChunkSize, ov \in SmallOverlaps }
  \cup
  { [fn |-> "chunkText", text |-> t, chunkSize |-> cs, chunkOverlap |-> ov] :
      t \in WordTexts(LongWords), cs \in UploadChunkSizes, ov \in UploadOverlaps }

RunChunk ==
  /\ libCall.fn = "chunkText"
  /\ libRet = NoRet
  /\ libRet' = [kind |-> "chunks",
                chunks |-> chunkText(libCall.text, libCall.chunkSize,
                                     libCall.chunkOverlap),
                parts |-> chunkWords(libCall.text, libCall.chunkSize,
                                     libCall.chunkOverlap)]
  /\ UNCHANGED << ragVars, libCall, serverVars, indexVars, sharedDefaults >>

ChunkInit == Idle /\ libRet = NoRet /\ libCall \in ChunkCalls
ChunkNext == RunChunk
ChunkSpec == ChunkInit /\ [][ChunkNext]_vars

\* ============================================================ HTTP server
\* POST /upload, POST /query and POST /query/advanced against the Pinecone
\* index.  The index is the external service: upsertRecords stores the
\* fields of each record under the record's id, replacing a record of the
\* same id, or rejects the batch; searchRecords returns hits that carry, of
\* the fields asked for, those the record has.
BATCH_SIZE == 96

FileNames == {"a.pdf", "b.pdf"}
MimeTypes == {"application/pdf", "text/plain"}
PdfWord == Rep("x", 99)
PdfTexts ==
  { <<>>, <<" ">> } \cup { Join([ j \in 1..n |-> PdfWord ]) : n \in 1..MaxPdfWords }
Files == [ originalname : FileNames, mimetype : MimeTypes, text : PdfTexts ]
UploadBodies == [ chunkSize : {200}, chunkOverlap : {0, 6} ]
QueryBodies == [ topK : {1, 5} ]

Defined(v) == [set |-> TRUE, value |-> v]

\* server.ts 13-26; a || b takes b when a is undefined, "" or 0
parseMetadata(metadata) ==
  IF ~metadata.set
  THEN [source |-> "unknown", chunkIndex |-> 0]
  ELSE [ source |-> IF metadata.value.source.set /\ metadata.value.source.value # ""
                    THEN metadata.value.source.value ELSE "unknown",
         chunkIndex |-> IF /\ metadata.value.chunkIndex.set
                           /\ metadata.value.chunkIndex.value # 0
                        THEN metadata.value.chunkIndex.value ELSE 0 ]

\* server.ts 95-118: the chunks of one file with their metadata
FileChunks(file, body) ==
  LET chunks == chunkText(file.text, body.chunkSize, body.chunkOverlap)
  IN  [ i \in 1..Len(chunks) |->
          [ text |-> chunks[i],
            metadata |-> [source |-> file.originalname, chunkIndex |-> i - 1] ] ]

\* server.ts 84-119: a file without text is skipped
RECURSIVE AllChunks(_, _)
AllChunks(files, body) ==
  IF files = <<>> THEN <<>>
  ELSE (IF Trim(Head(files).text) = <<>> THEN <<>> ELSE FileChunks(Head(files), body))
       \o AllChunks(Tail(files), body)

\* pinecone.ts 60-67: the records built from the chunks at time t
UpsertRecords(texts, metadata, t) ==
  [ i \in 1..Len(texts) |->
      [ id |-> <<t, i - 1>>,
        values |-> <<>>,
        chunk_text |-> texts[i],
        metadata |-> metadata[i] ] ]

\* the index after upsertRecords(batch) succeeded
Upserted(index, batch) ==
  { r \in index : \A j \in 1..Len(batch) : batch[j].id # r.id }
    \cup { batch[j] : j \in 1..Len(batch) }

\* pinecone.ts 69-80: the batches are upserted in order until one is
\* rejected; stored is the number of batches the index accepted
RECURSIVE UpsertBatches(_, _, _, _)
UpsertBatches(index, recs, i, stored) ==
  IF i >= Len(recs) \/ stored = 0 THEN index
  ELSE UpsertBatches(Upserted(index, Slice(recs, i, i + BATCH_SIZE)), recs,
                     i + BATCH_SIZE, stored - 1)

NumBatches(n) == (n + BATCH_SIZE - 1) \div BATCH_SIZE

\* pinecone.ts 56-83
upsertVectors(index, texts, metadata, t, stored) ==
  UpsertBatches(index, UpsertRecords(texts, metadata, t), 0, stored)

\* the fields of a record that a search can return
FieldNames(r) == DOMAIN r \ {"id"}

\* one hit of searchRecords for a record
Hit(r, fields) ==
  [ id |-> r.id,
    fields |-> [ f \in (fields \cap FieldNames(r)) |-> r[f] ] ]

\* match.fields?.name
Field(hit, name) ==
  IF name \in DOMAIN hit.fields THEN Defined(hit.fields[name]) ELSE Unset

\* server.ts 178-185 and 270-277
ParsedMatch(hit) ==
  [ id |-> hit.id,
    fields |-> hit.fields,
    metadata |-> parseMetadata(Defined([ source |-> Field(hit, "source"),
                                         chunkIndex |-> Field(hit, "chunk_index") ])) ]

\* the fields both query routes ask for (server.ts 167 and 261)
SearchFields == {"chunk_text", "source", "chunk_index"}

\* the hit lists searchRecords can return: up to topN distinct records in
\* any order
HitLists(index, topN) ==
  { hs \in SeqsUpTo(index, Min(Min(topN, MaxHits), Cardinality(index))) :
      \A i, j \in 1..Len(hs) : i # j => hs[i] # hs[j] }

\* server.ts 160/170 and 254/264
TopN(route, topK) ==
  IF route = "/query" THEN Min(Max(topK * 2, 10), 10) ELSE Min(Max(topK * 3, 15), 15)

\* POST /upload, server.ts 53-138
Upload ==
  \E files \in SeqsUpTo(Files, MaxFiles), body \in UploadBodies,
     t \in now..Min(now + 1, MaxClock) :
    LET all == AllChunks(files, body)
        texts == [ i \in 1..Len(all) |-> all[i].text ]
        metadata == [ i \in 1..Len(all) |-> all[i].metadata ]
    IN  /\ Cardinality(records) <= MaxStored
        /\ now' = t
        /\ IF \/ files = <<>>
              \/ \E i \in 1..Len(files) :
                   /\ files[i].mimetype # "application/pdf"
                   /\ \A j \in 1..(i - 1) : files[j].mimetype = "application/pdf"
              \/ all = <<>>
           THEN /\ records' = records
                /\ httpResponse' = [status |-> 400, route |-> "/upload", matches |-> <<>>]
           ELSE \E stored \in 0..NumBatches(Len(all)) :
                  /\ records' = upsertVectors(records, texts, metadata, t, stored)
                  /\ httpResponse' =
                       [ status |-> IF stored = NumBatches(Len(all)) THEN 200 ELSE 500,
                         route |-> "/upload", matches |-> <<>> ]
        /\ UNCHANGED << ragVars, libCall, libRet, indexVars, sharedDefaults >>

\* POST /query (server.ts 140-231) and POST /query/advanced (234-312): the
\* matches of the response
Query ==
  \E route \in {"/query", "/query/advanced"}, body \in QueryBodies :
    \E hits \in HitLists(records, TopN(route, body.topK)) :
      LET parsedMatches == [ i \in 1..Len(hits) |-> ParsedMatch(Hit(hits[i], SearchFields)) ]
      IN  /\ httpResponse' =
               [ status |-> 200, route |-> route,
                 matches |-> IF route = "/query" THEN parsedMatches
                             ELSE Slice(parsedMatches, 0, 5) ]
          /\ UNCHANGED << ragVars, libCall, libRet, records, now, indexVars, sharedDefaults >>

ServerInit == Idle /\ libCall = NoCall /\ libRet = NoRet
ServerNext == Upload \/ Query
ServerSpec == ServerInit /\ [][ServerNext]_vars

\* ------------------------------------------- the answer of a query request
\* POST /query and POST /query/advanced from the request to the response,
\* advancedRAGQuery included.  What searchRecords returns is an input: the
\* chunk_text of each hit, or a failure.
NoAnswer == "undefined"
ErrorAnswer == "An error occurred while processing your request."

\* the configurations the query requests run under
AnswerConfigs == { c \in Configs : c.selfCritique.maxImprovementAttempts <= 1 }

QueryRequests ==
  [ fn : {"/query", "/query/advanced"},
    valid : BOOLEAN,          \* QuerySchema accepts the body
    withAnswer : BOOLEAN,     \* read by /query only
    searchFails : BOOLEAN,    \* searchRecords rejects
    hits : SeqsUpTo(ChunkTexts, MaxResults),
    config : AnswerConfigs ]

\* server.ts 178-185 and 270-277 over the hits of a request
ParsedMatches(hits) ==
  [ i \in 1..Len(hits) |->
      ParsedMatch([id |-> <<0, i - 1>>, fields |-> [chunk_text |-> hits[i]]]) ]

QueryResponse(status, route, matches, answer) ==
  [status |-> status, route |-> route, matches |-> matches, answer |-> answer]

\* the error middleware, server.ts 314-317
InternalError(route) == QueryResponse(500, route, <<>>, NoAnswer)

\* the handler calls advancedRAGQuery(query, parsedMatches, topK)
EntersAdvancedRAG(req) ==
  /\ req.valid /\ ~req.searchFails
  /\ Len(req.hits) > 0
  /\ req.fn = "/query" => req.withAnswer

\* server.ts 142-185 and 238-277: validation, search, parsed matches; then
\* either the response is sent at once or advancedRAGQuery is entered
Receive ==
  /\ pc = "IDLE"
  /\ libCall.fn \in {"/query", "/query/advanced"}
  /\ httpResponse = NoResponse
  /\ IF EntersAdvancedRAG(libCall)
     THEN /\ pc' = "EXPAND"
          /\ config' = libCall.config
          /\ vectorSearchResults' = libCall.hits
          /\ UNCHANGED httpResponse
     ELSE /\ httpResponse' =
               IF ~libCall.valid
               THEN QueryResponse(400, libCall.fn, <<>>, NoAnswer)
               ELSE IF libCall.searchFails
               THEN InternalError(libCall.fn)
               ELSE IF libCall.fn = "/query"
               THEN \* lines 187-215 with no match or withAnswer false
                    QueryResponse(200, libCall.fn, ParsedMatches(libCall.hits),
                                  IF libCall.withAnswer THEN InsufficientAnswer
                                  ELSE NoAnswer)
               ELSE \* lines 279-292: a message and no answer
                    QueryResponse(200, libCall.fn, <<>>, NoAnswer)
          /\ UNCHANGED << pc, config, vectorSearchResults >>
  /\ UNCHANGED << pending, callLog, failedAt, expandedQueries, documents,
                  rerankedDocuments, initialAnswer, critique, finalAnswer,
                  confidence, improvementAttempts, bestAnswer, bestScore,
                  improvedAnswer, improvedCritique, critiqueGen, observed,
                  rejected, result, libCall, libRet, records, now, indexVars, sharedDefaults >>

\* advancedRAGQuery settled: server.ts 194-227 (the catch of /query turns a
\* failure into an answer) and 296-310 (a failure goes to the error
\* middleware)
Respond ==
  /\ pc \in {"DONE", "FAILED"}
  /\ libCall.fn \in {"/query", "/query/advanced"}
  /\ httpResponse = NoResponse
  /\ httpResponse' =
       IF pc = "DONE"
       THEN QueryResponse(200, libCall.fn,
                          IF libCall.fn = "/query" THEN ParsedMatches(libCall.hits)
                          ELSE Slice(ParsedMatches(libCall.hits), 0, 5),
                          result.finalAnswer)
       ELSE IF libCall.fn = "/query"
       THEN QueryResponse(200, libCall.fn, ParsedMatches(libCall.hits), ErrorAnswer)
       ELSE InternalError(libCall.fn)
  /\ UNCHANGED << ragVars, libCall, libRet, records, now, indexVars, sharedDefaults >>

AnswerInit == Idle /\ libRet = NoRet /\ libCall \in QueryRequests
AnswerNext == Receive \/ Respond \/ Next
AnswerSpec == AnswerInit /\ [][AnswerNext]_vars

\* --------------------------------------------- the cached index handle
\* ensurePineconeIndex (pinecone.ts 23-49) and getPineconeIndex (51-54),
\* called concurrently.  The code between two awaits runs without
\* interruption; every await is a point where another caller can run.
\* PINECONE_API_KEY is set (getClient does not throw).

\* what a call of ensurePineconeIndex leaves alone
otherVars == << ragVars, libCall, libRet, serverVars, sharedDefaults >>

\* lines 24 and 52-53, 26-28: a cached handle is returned at once; else
\* listIndexes is requested
EnsureEnter(c) ==
  /\ ensureCalls[c].pc = "idle"
  /\ ensureCalls' =
       [ensureCalls EXCEPT ![c].pc =
          IF pineconeIndex # "null" THEN "done" ELSE "listing"]
  /\ UNCHANGED << pineconeIndex, controlPlane >>
  /\ UNCHANGED otherVars

\* lines 28-34, 47-48: listIndexes answers; the index is there and the
\* handle is cached, or createIndexForModel is requested
ListReturn(c) ==
  /\ ensureCalls[c].pc = "listing"
  /\ LET hasIndex == controlPlane.exists
     IN  IF hasIndex
         THEN /\ ensureCalls' = [ensureCalls EXCEPT ![c] = [pc |-> "done", hasIndex |-> TRUE]]
              /\ pineconeIndex' = "index"
              /\ UNCHANGED controlPlane
         ELSE /\ ensureCalls' = [ensureCalls EXCEPT ![c] = [pc |-> "creating", hasIndex |-> FALSE]]
              /\ controlPlane' = [controlPlane EXCEPT !.createCalls = @ + 1]
              /\ UNCHANGED pineconeIndex
  /\ UNCHANGED otherVars

\* listIndexes rejects: ensurePineconeIndex rejects
ListFail(c) ==
  /\ ensureCalls[c].pc = "listing"
  /\ ensureCalls' = [ensureCalls EXCEPT ![c].pc = "failed"]
  /\ UNCHANGED << pineconeIndex, controlPlane >>
  /\ UNCHANGED otherVars

\* lines 34-44: createIndexForModel answers.  Pinecone creates the index,
\* or rejects the request when an index of that name exists already.
CreateReturn(c) ==
  /\ ensureCalls[c].pc = "creating"
  /\ IF controlPlane.exists
     THEN /\ ensureCalls' = [ensureCalls EXCEPT ![c].pc = "failed"]
          /\ UNCHANGED controlPlane
     ELSE /\ ensureCalls' = [ensureCalls EXCEPT ![c].pc = "waiting"]
          /\ controlPlane' = [controlPlane EXCEPT !.exists = TRUE]
  /\ UNCHANGED pineconeIndex
  /\ UNCHANGED otherVars

\* lines 44-48: the ten-second timer fires and the handle is cached
TimerFires(c) ==
  /\ ensureCalls[c].pc = "waiting"
  /\ ensureCalls' = [ensureCalls EXCEPT ![c].pc = "done"]
  /\ pineconeIndex' = "index"
  /\ UNCHANGED controlPlane
  /\ UNCHANGED otherVars

EnsureInit == Idle /\ libCall = NoCall /\ libRet = NoRet
EnsureNext ==
  \/ \E c \in Callers : EnsureEnter(c)
  \/ \E c \in Callers : ListReturn(c)
  \/ \E c \in Callers : ListFail(c)
  \/ \E c \in Callers : CreateReturn(c)
  \/ \E c \in Callers : TimerFires(c)
EnsureSpec == EnsureInit /\ [][EnsureNext]_vars

\* ------------------------------------------- repeated configuration calls
\* getAdvancedRAGConfig (part_001 lines 88-127) called again and again while
\* the environment changes between the calls.  `{ ...defaultAdvancedRAGConfig }`
\* (line 89) copies the top-level properties only: queryExpansion,
\* selfCritique, reranking and synthesis of the copy are the very objects of
\* the exported defaults, so every override assignment (lines 92-124) writes
\* into the exported object, and the object returned reads the same as it.
FlagTrue == EnvString(<<"t", "r", "u", "e">>)
FlagFalse == EnvString(<<"f", "a", "l", "s", "e">>)
ConfigEnvs ==
  { [ADVANCED_RAG_QUERY_EXPANSION_ENABLED |-> e,
     ADVANCED_RAG_SELF_CRITIQUE_ENABLED |-> s,
     ADVANCED_RAG_RERANKING_ENABLED |-> r,
     ADVANCED_RAG_CRITIQUE_THRESHOLD |-> t,
     ADVANCED_RAG_MAX_CONTEXT_DOCS |-> d] :
       e \in {Unset, FlagTrue, FlagFalse},
       s \in {Unset, FlagFalse},
       r \in {Unset, FlagFalse},
       t \in {UnsetNumber, EnvNumber(NaN), EnvNumber(Num(5))},
       d \in {Unset, EnvString(<<"a">>), EnvString(<<"2">>)} }

GetConfig ==
  \E env \in ConfigEnvs :
    /\ libCall' = [fn |-> "getAdvancedRAGConfig", env |-> env]
    /\ sharedDefaults' = getAdvancedRAGConfig(sharedDefaults, env)
    /\ libRet' = [kind |-> "config", config |-> sharedDefaults']
    /\ UNCHANGED << ragVars, serverVars, indexVars >>

ConfigInit == Idle /\ libCall = NoCall /\ libRet = NoRet
ConfigNext == GetConfig
ConfigSpec == ConfigInit /\ [][ConfigNext]_vars

\* ======================================================== properties
Returned == pc = "DONE" /\ result.kind = "result"
HasPassages == Len(ExtractDocuments(vectorSearchResults)) > 0
Threshold == config.selfCritique.threshold
MaxImprovementAttempts == config.selfCritique.maxImprovementAttempts

NumCalls(kind) == Cardinality({ i \in 1..Len(callLog) : callLog[i].kind = kind })
ObservedScores == { observed[i].score : i \in 1..Len(observed) }
MaxObserved == CHOOSE m \in ObservedScores : \A x \in ObservedScores : x <= m
AllBelowThreshold == \A i \in 1..Len(observed) : observed[i].score < Threshold
LatestCritique == IF improvedCritique # NoCritique THEN improvedCritique ELSE critique

\* C1: over a non-empty passage list the returned confidence is the
\* maximum critique score observed among the initial critique and all
\* improvement-attempt critiques of the invocation.
C1_ConfidenceIsMaxObserved ==
  (Returned /\ HasPassages) => result.confidence = MaxObserved

\* C2: the returned finalAnswer is an answer whose critique score is the
\* maximum of all scores observed; a later, lower-scoring candidate never
\* replaces an earlier, higher-scoring one.
C2_FinalAnswerHasMaxScore ==
  (Returned /\ HasPassages) =>
    \E i \in 1..Len(observed) :
      /\ observed[i].answer = result.finalAnswer
      /\ observed[i].score = MaxObserved

\* C3: the improvement attempts (a synthesis and a critique each, after the
\* initial pair) never exceed maxImprovementAttempts; when every critique
\* score is below the threshold and there are passages, the invocation that
\* returned made exactly maxImprovementAttempts of them, and once they are
\* made it goes on to return a result without a further call.
C3_BoundedAttempts ==
  /\ improvementAttempts <= MaxImprovementAttempts
  /\ NumCalls("synthesis") <= 1 + MaxImprovementAttempts
  /\ NumCalls("critique") <= 1 + MaxImprovementAttempts
  /\ (Returned /\ HasPassages /\ AllBelowThreshold) =>
       /\ NumCalls("synthesis") = 1 + MaxImprovementAttempts
       /\ NumCalls("critique") = 1 + MaxImprovementAttempts
       /\ Len(observed) = 1 + MaxImprovementAttempts
  /\ (Len(observed) = 1 + MaxImprovementAttempts /\ AllBelowThreshold) =>
       /\ pc \in {"LOOP_HEAD", "LOOP_TAIL", "LOOP_EXIT", "RETURN", "DONE"}
       /\ pending = "none"

C3_Witness ==
  /\ Returned /\ HasPassages /\ AllBelowThreshold
  /\ MaxImprovementAttempts = 2
  /\ NumCalls("synthesis") = 3 /\ NumCalls("critique") = 3

\* C4: once an improvement attempt's critique score reaches the threshold,
\* no further synthesis or critique call is issued in the invocation.
C4_StopsAtThreshold ==
  \A i \in 2..Len(observed) :
    observed[i].score >= Threshold =>
      /\ NumCalls("synthesis") <= i
      /\ NumCalls("critique") <= i

\* C5: an initial critique score at or above the threshold makes the
\* invocation return the initial answer with that score as confidence and
\* issue no call beyond the initial synthesis and critique; the improvement
\* loop is entered only with an initial score strictly below the threshold.
C5_GoodInitialAnswerReturned ==
  /\ (Len(observed) >= 1 /\ observed[1].score >= Threshold) =>
       /\ pc \in {"RETURN", "DONE"}
       /\ NumCalls("synthesis") = 1 /\ NumCalls("critique") = 1
       /\ Len(observed) = 1
       /\ pc = "DONE" =>
            /\ result.kind = "result"
            /\ result.finalAnswer = observed[1].answer
            /\ result.confidence = observed[1].score
  /\ pc \in {"LOOP_HEAD", "IMPROVE_SYNTH_WAIT", "IMPROVE_CRITIQUE",
             "IMPROVE_CRITIQUE_WAIT", "LOOP_TAIL", "LOOP_EXIT"} =>
       observed[1].score < Threshold

C5_Witness ==
  /\ Returned /\ HasPassages
  /\ observed[1].score = Threshold
  /\ result.finalAnswer = initialAnswer

\* C6: with no non-empty chunk_text among the search results the invocation
\* ends with a result, never a failure: the fixed insufficient-information
\* answer, critiqueScore 0.0, confidence 0.0, no documents, no reranked
\* documents.
C6_EmptyRetrievalReturnsResult ==
  (~HasPassages /\ pc \in {"DONE", "FAILED"}) =>
    /\ pc = "DONE"
    /\ result.kind = "result"
    /\ result.finalAnswer = InsufficientAnswer
    /\ result.critiqueScore = 0
    /\ result.confidence = 0
    /\ result.documents = <<>>
    /\ result.rerankedDocuments = <<>>

\* C7: with no non-empty chunk_text among the search results no call to the
\* text generation service is made in the whole invocation, under every
\* configuration.
C7_NoGenerationCallsWhenEmpty ==
  ~HasPassages => Len(callLog) = 0

\* C8: over a non-empty passage list the returned critiqueScore is the
\* critique score of the initial synthesis, whatever the improvement
\* attempts scored and whichever answer is returned.
C8_CritiqueScoreIsInitial ==
  (Returned /\ HasPassages) => result.critiqueScore = observed[1].score

C8_Witness ==
  /\ Returned /\ Len(observed) >= 2
  /\ observed[2].score > observed[1].score
  /\ result.finalAnswer # initialAnswer

\* C9: a generation failure during expansion, the initial synthesis or the
\* synthesis of an improvement attempt fails the whole invocation: no
\* result is returned, also when an answer was already scored, and no call
\* is issued after the failed one.
C9_GenerationFailurePropagates ==
  \A i \in 1..Len(rejected) :
    rejected[i].kind \in {"expansion", "synthesis"} =>
      /\ pc = "FAILED"
      /\ failedAt = rejected[i].kind
      /\ result = NoResult
      /\ pending = "none"
      /\ Len(callLog) = rejected[i].at

C9_Witness ==
  /\ pc = "FAILED" /\ failedAt = "synthesis"
  /\ Len(observed) >= 1
  /\ Len(rejected) >= 1

\* C10: critiqueResponse never fails: a failed generation call or a response
\* that is not JSON yields exactly score 0.5 with the parse-failure details,
\* so no critique step fails the invocation and every critique gives the
\* orchestrator a score.
C10_CritiqueNeverFails ==
  /\ failedAt # "critique"
  /\ critiqueGen.kind \in {"fail", "nonjson"} =>
       /\ LatestCritique = FallbackCritique
       /\ observed[Len(observed)].score = 5
  /\ \A i \in 1..Len(observed) : observed[i].score \in 0..10
  /\ Len(observed) = NumCalls("critique") - (IF pending = "critique" THEN 1 ELSE 0)

C10_Witness ==
  /\ Returned
  /\ critiqueGen.kind = "fail"
  /\ Len(observed) >= 2
  /\ observed[1].score = 5

\* ---- C11
\* the lines of a text, read off the positions of its line breaks, each
\* stripped of the white space around it
LineBreaks(t) == { i \in 1..Len(t) : t[i] = "\n" } \cup { Len(t) + 1 }
NextBreak(t, b) == CHOOSE c \in LineBreaks(t) :
                     c > b /\ \A d \in LineBreaks(t) : d > b => c <= d
Stripped(seg) ==
  LET inked == { i \in 1..Len(seg) : ~IsSpace(seg[i]) }
  IN  IF inked = {} THEN <<>>
      ELSE SubSeq(seg, CHOOSE i \in inked : \A j \in inked : i <= j,
                       CHOOSE i \in inked : \A j \in inked : j <= i)
RECURSIVE StrippedLinesFrom(_, _)
StrippedLinesFrom(t, b) ==
  IF b > Len(t) THEN <<>>
  ELSE LET nb == NextBreak(t, b)
           line == Stripped(SubSeq(t, b + 1, nb - 1))
       IN  (IF line = <<>> THEN <<>> ELSE <<line>>) \o StrippedLinesFrom(t, nb)
UsableLines(t) == StrippedLinesFrom(t, 0)

ExpandRan == libCall.fn = "generateExpandedQueries" /\ libRet # NoRet

\* C11: for every query, every n >= 0 and every completion,
\* generateExpandedQueries returns a sequence whose first element is the
\* query unchanged, of length 1 to 1 + n, whose other elements are the
\* first n non-empty trimmed lines of the completion in order; with
\* expansion disabled it returns just the query and makes no generation call.
C11_ExpandedQueriesShape ==
  ExpandRan =>
    LET out == libRet.queries
        usable == UsableLines(libCall.completion)
        k == Min(libCall.numQueries, Len(usable))
    IN  IF libCall.enabled
        THEN /\ Len(out) >= 1 /\ Len(out) <= 1 + libCall.numQueries
             /\ out[1] = libCall.originalQuery
             /\ Len(out) = 1 + k
             /\ \A i \in 1..k : out[1 + i] = usable[i]
        ELSE /\ out = <<libCall.originalQuery>>
             /\ libRet.genCalls = 0

C11_Witness ==
  /\ ExpandRan /\ libCall.enabled
  /\ libCall.numQueries = 1
  /\ Len(UsableLines(libCall.completion)) = 2
  /\ Len(libRet.queries) = 2
  /\ libCall.originalQuery = <<" ", "q", "\n">>

\* ---- C12
SynthRan == libCall.fn = "synthesizeAnswer" /\ libRet # NoRet

\* C12: for every passage list and every configured context limit the
\* prompt of synthesizeAnswer embeds exactly the first
\* min(len(passages), contextLimit) passages, in order, numbered 1, 2, ...
C12_PromptHoldsFirstPassages ==
  SynthRan =>
    LET k == Min(Len(libCall.documents), libRet.limit)
    IN  /\ Len(libRet.documents) = Max(k, 0)
        /\ \A i \in 1..Len(libRet.documents) :
             libRet.documents[i] = [number |-> i, doc |-> libCall.documents[i]]

\* ---- C13
RerankRan == libCall.fn = "rerankDocuments" /\ libRet # NoRet

\* C13: with ranking disabled rerankDocuments returns one entry per input
\* passage, in input order, with scores 1.0, 0.9, 0.8, ... that stop at
\* zero: no score is negative, whatever the number of passages.
C13_FallbackScoresTruncated ==
  (RerankRan /\ ~libCall.enabled) =>
    /\ Len(libRet.ranked) = Len(libCall.documents)
    /\ \A i \in 1..Len(libRet.ranked) :
         /\ libRet.ranked[i].text = libCall.documents[i]
         /\ libRet.ranked[i].relevanceScore = Max(10 - (i - 1), 0)
         /\ libRet.ranked[i].relevanceScore >= 0

\* ---- chunkText claims
ChunkRan == libCall.fn = "chunkText" /\ libRet # NoRet

\* the words of a text: its maximal runs of characters that are neither
\* white space nor control characters
IsInk(c) == ~IsSpace(c) /\ ~IsControl(c)
WordsOf(t) ==
  LET WordStart(i) == IsInk(t[i]) /\ (i = 1 \/ ~IsInk(t[i - 1]))
      WordEnd(i) == IsInk(t[i]) /\ (i = Len(t) \/ ~IsInk(t[i + 1]))
      starts == SelectSeq(Positions(t), WordStart)
      ends == SelectSeq(Positions(t), WordEnd)
  IN  [ k \in 1..Len(starts) |-> SubSeq(t, starts[k], ends[k]) ]

\* C14: chunkText of an empty text, or of a text that is empty after
\* normalization, returns the empty sequence, not a sequence holding an
\* empty string.
C14_EmptyTextNoChunks ==
  (ChunkRan /\ WordsOf(libCall.text) = <<>>) => libRet.chunks = <<>>

\* the last n words of a word list (all of them when it has fewer)
LastWords(ws, n) == SubSeq(ws, Len(ws) - Min(n, Len(ws)) + 1, Len(ws))

\* C15: whenever chunkText closes a chunk, the next chunk is seeded with
\* exactly the last floor(chunkOverlap / 6) words of the chunk just closed
\* when chunkOverlap > 0 (no word at all when 0 < chunkOverlap < 6), and
\* with no word when chunkOverlap = 0.
C15_SeedIsLastOverlapWords ==
  ChunkRan =>
    \A i \in 2..Len(libRet.parts) :
      LET prev == libRet.parts[i - 1].words
          seed == LastWords(prev, libCall.chunkOverlap \div 6)
      IN  /\ libRet.parts[i].seeded = Len(seed)
          /\ SubSeq(libRet.parts[i].words, 1, Len(seed)) = seed

\* the request body /upload accepts (UploadSchema)
UploadRange ==
  /\ libCall.chunkSize \in 200..4000
  /\ libCall.chunkOverlap \in 0..1000
LongestWord(ws) == CHOOSE n \in { Len(ws[j]) : j \in 1..Len(ws) } :
                     \A j \in 1..Len(ws) : Len(ws[j]) <= n

\* C16: for every chunkSize and chunkOverlap the upload interface accepts,
\* no chunk of more than one word is longer than chunkSize plus the length
\* of one of its words.
C16_ChunkLengthBounded ==
  (ChunkRan /\ UploadRange) =>
    \A i \in 1..Len(libRet.chunks) :
      Len(libRet.parts[i].words) > 1 =>
        Len(libRet.chunks[i]) <= libCall.chunkSize + LongestWord(libRet.parts[i].words)

IsPrefix(p, ws) == Len(p) <= Len(ws) /\ SubSeq(ws, 1, Len(p)) = p

\* Covers(cs, first, prev, rest): the chunks cs, read as texts, are each a
\* suffix of the previous chunk's words prev followed by new words (at
\* least one, except in the first chunk), and the new words taken in order
\* are exactly the words rest.
RECURSIVE Covers(_, _, _, _)
Covers(cs, first, prev, rest) ==
  IF cs = <<>> THEN rest = <<>>
  ELSE LET w == WordsOf(Head(cs))
       IN  \E s \in 0..Min(Len(w), Len(prev)) :
             LET new == SubSeq(w, s + 1, Len(w))
             IN  /\ SubSeq(w, 1, s) = LastWords(prev, s)
                 /\ first \/ Len(new) >= 1
                 /\ IsPrefix(new, rest)
                 /\ Covers(Tail(cs), FALSE, w, SubSeq(rest, Len(new) + 1, Len(rest)))

\* C17: for every non-empty text the chunks cover the white-space-delimited
\* words of the text in order, none lost, split or reordered: each chunk
\* after the first is a suffix of the previous chunk's words followed by at
\* least one new word, and the new words of all chunks, concatenated, are
\* the original word sequence.
C17_ChunksCoverWords ==
  (ChunkRan /\ libCall.text # <<>>) =>
    Covers(libRet.chunks, TRUE, <<>>, WordsOf(libCall.text))

\* a text of three words or more cut into several chunks that overlap
C17_Witness ==
  /\ ChunkRan
  /\ Len(WordsOf(libCall.text)) >= 3
  /\ Len(libRet.chunks) >= 2
  /\ \E i \in 2..Len(libRet.chunks) : libRet.parts[i].seeded >= 1
  /\ C17_ChunksCoverWords

\* a text that has the form of a chunk: its words joined by single spaces
ChunkForm(t) == t = Join(WordsOf(t))

\* C18 as stated: a text of chunk form whose length is at most chunkSize
\* (exactly chunkSize included, one word or several) comes back as exactly
\* one chunk equal to the text.
C18_RechunkAtMostChunkSize ==
  (ChunkRan /\ ChunkForm(libCall.text) /\ Len(libCall.text) <= libCall.chunkSize) =>
    libRet.chunks = <<libCall.text>>

\* C18 amended: a text of chunk form whose length is strictly less than
\* chunkSize, or that is a single word, comes back as exactly one chunk
\* equal to the text.
C18_RechunkBelowChunkSize ==
  (/\ ChunkRan
   /\ ChunkForm(libCall.text)
   /\ \/ Len(libCall.text) < libCall.chunkSize
      \/ Len(WordsOf(libCall.text)) <= 1) =>
    libRet.chunks = <<libCall.text>>

\* several words that fill chunkSize - 1 characters, returned as one chunk
C18_Witness ==
  /\ ChunkRan
  /\ ChunkForm(libCall.text)
  /\ Len(WordsOf(libCall.text)) >= 2
  /\ Len(libCall.text) = libCall.chunkSize - 1
  /\ libRet.chunks = <<libCall.text>>

\* the chunkSize values of the model that are larger than s
LargerSizes(s) ==
  { s2 \in (1..MaxChunkSize) \cup UploadChunkSizes : s2 > s }

\* C19: for a fixed text and a fixed chunkOverlap the number of chunks is
\* monotone in chunkSize: a smaller chunkSize never gives fewer chunks than
\* a larger one.
C19_CountMonotoneInChunkSize ==
  ChunkRan =>
    \A s2 \in LargerSizes(libCall.chunkSize) :
      Len(libRet.chunks) >= Len(chunkText(libCall.text, s2, libCall.chunkOverlap))

\* a text cut with an overlap into strictly more chunks than a larger
\* chunkSize gives
C19_Witness ==
  /\ ChunkRan
  /\ libCall.chunkOverlap > 0
  /\ Len(WordsOf(libCall.text)) >= 3
  /\ \E s2 \in LargerSizes(libCall.chunkSize) :
       /\ Len(chunkText(libCall.text, s2, libCall.chunkOverlap)) >= 2
       /\ Len(libRet.chunks) > Len(chunkText(libCall.text, s2, libCall.chunkOverlap))

\* ---- provenance
\* the record of the index a match was made from
RecordOf(m) == CHOOSE r \in records : r.id = m.id

\* C20: every match /query or /query/advanced returns for an ingested chunk
\* carries metadata.chunkIndex equal to the chunk's zero-based index in its
\* file and metadata.source equal to the file's name, as /upload stored them.
C20_ProvenanceRoundTrip ==
  \A i \in 1..Len(httpResponse.matches) :
    LET m == httpResponse.matches[i]
    IN  /\ m.metadata.chunkIndex = RecordOf(m).metadata.chunkIndex
        /\ m.metadata.source = RecordOf(m).metadata.source

\* ---- order of the generation calls
\* the kinds of the calls issued so far, the expansion call left out
AnswerCalls ==
  LET NotExpansion(c) == c.kind # "expansion"
  IN  SelectSeq(callLog, NotExpansion)

\* expansion first if at all, then synthesis and critique in turns
CallsInOrder ==
  /\ \A i \in 1..Len(callLog) : callLog[i].kind = "expansion" => i = 1
  /\ \A i \in 1..Len(AnswerCalls) :
       AnswerCalls[i].kind = (IF i % 2 = 1 THEN "synthesis" ELSE "critique")

\* the call in flight, if any, is the last one issued
OneOutstanding ==
  pending # "none" => (callLog # <<>> /\ callLog[Len(callLog)].kind = pending)

\* a step that issues a call issues one call, and none was in flight
IssuedWhenIdle ==
  callLog' # callLog =>
    /\ pending = "none"
    /\ Len(callLog') = Len(callLog) + 1
    /\ SubSeq(callLog', 1, Len(callLog)) = callLog

\* C23: within one advancedRAGQuery invocation the generation calls are
\* strictly sequential (a call is issued only after the previous one has
\* settled, at most one is outstanding) and come in the order expansion,
\* initial synthesis, initial critique, then per improvement attempt one
\* synthesis immediately followed by the critique of that candidate.
C23_CallsSequentialInOrder ==
  /\ [](CallsInOrder /\ OneOutstanding)
  /\ [][IssuedWhenIdle]_vars

\* two improvement attempts ran: five answer calls, after an expansion call
C23_Witness ==
  /\ Len(callLog) >= 6
  /\ callLog[1].kind = "expansion"
  /\ improvementAttempts >= 2
  /\ pc = "DONE"

\* ---- the context of the improvement attempts
\* the synthesis calls of the improvement loop: all but the initial one
LoopSyntheses ==
  LET IsSynthesis(c) == c.kind = "synthesis"
  IN  Tail(SelectSeq(callLog, IsSynthesis))

FirstRanked(n) ==
  SubSeq(Texts(rerankedDocuments), 1, Min(n, Len(rerankedDocuments)))

\* C24: once the passages are ranked, the high-confidence filter selects
\* exactly the first min(3, N) of them, so the filtered set is never empty
\* and is the same in every attempt, and every improvement attempt issues
\* one synthesis call over that context.
C24_AttemptsUseFirstThree ==
  (rerankedDocuments # <<>> /\ NumCalls("synthesis") >= 1) =>
    /\ topDocuments(rerankedDocuments) = FirstRanked(3)
    /\ FirstRanked(3) # <<>>
    /\ Len(LoopSyntheses) = improvementAttempts
    /\ \A i \in 1..Len(LoopSyntheses) : LoopSyntheses[i].docs = FirstRanked(3)

\* two attempts were made over the first three of four ranked passages
C24_Witness ==
  /\ Len(rerankedDocuments) >= 4
  /\ improvementAttempts >= 2
  /\ Len(LoopSyntheses) >= 2
  /\ LoopSyntheses[2].docs = <<"A", "B", "C">>
  /\ pc = "DONE"

\* ---- the response of the query routes
Responded ==
  /\ libCall.fn \in {"/query", "/query/advanced"}
  /\ httpResponse # NoResponse

\* C21: when advancedRAGQuery fails while a query request is served, the
\* response of /query and of /query/advanced is the internal-error response
\* (status 500), never a success carrying an answer string.
C21_FailureIsInternalError ==
  (Responded /\ pc = "FAILED") =>
    /\ httpResponse.status = 500
    /\ httpResponse.answer = NoAnswer

\* retrieval succeeded and gave no passage with text, and an answer is asked for
NoCandidatePassage ==
  /\ libCall.valid /\ ~libCall.searchFails
  /\ ExtractDocuments(libCall.hits) = <<>>
  /\ libCall.fn = "/query" => libCall.withAnswer

\* C22: when retrieval yields no candidate passage (no hit, or only hits
\* with empty text), /query with withAnswer true and /query/advanced respond
\* with status 200 and the fixed insufficient-information answer.
C22_EmptyRetrievalAnswered ==
  (Responded /\ NoCandidatePassage) =>
    /\ httpResponse.status = 200
    /\ httpResponse.answer = InsufficientAnswer

\* ---- creation of the index
\* C25: for any interleaving of concurrent ensurePineconeIndex and
\* getPineconeIndex calls made while the index does not exist,
\* createIndexForModel is invoked at most once in total.
C25_IndexCreatedAtMostOnce == controlPlane.createCalls <= 1

\* ---- the shared defaults
\* C26: getAdvancedRAGConfig leaves the exported defaultAdvancedRAGConfig
\* unchanged: after any sequence of calls under any environment values the
\* exported object still holds the original defaults, and a call made with
\* no override variable set returns the original defaults.
CalledWithoutOverride ==
  libCall.fn = "getAdvancedRAGConfig" /\ libCall.env = NoEnv
C26_DefaultsNeverChange ==
  /\ sharedDefaults = defaultAdvancedRAGConfig
  /\ CalledWithoutOverride => libRet.config = defaultAdvancedRAGConfig

=============================================================================
